---- MODULE Spec2Model ----
(***************************************************************************)
(* DocBrains backend (backend/server.py): the document store, the chat     *)
(* log and the request handlers of the HTTP API, as a state machine.       *)
(*                                                                         *)
(* A handler is split exactly at the awaits where another request can run  *)
(* and observe a difference: the remote model call and the store write     *)
(* that follows it.  A handler that does one store call and answers is one *)
(* action.  The store (MongoDB) applies each single-document call          *)
(* atomically and is assumed to answer; the remote model may fail.         *)
(***************************************************************************)
EXTENDS Integers, Sequences, FiniteSets, Bags, TLC

\* ---------------------------------------------------------------- bounds
\* Largest value the wall clock is read at.  Every request that stores
\* something reads the clock, so this also bounds the uploads, the
\* generations, the chat turns and the requests in flight.
MaxClock == 4
\* Chat requests admitted while the chat log and the chats in flight hold
\* fewer turns than this.
MaxChats == 1

\* ------------------------------------------------------ program constants
MaxFileSize == 100 * 1024 * 1024
MinTextLen == 50
PreviewLen == 500
ListPreviewLen == 200
ChatContextLen == 2000

\* Python's None (Optional[str] fields, dict.get of a missing key).
None == "<None>"

\* ------------------------------------------------------------ str helpers
\* `not v` for an Optional[str]: None and "" are falsy.
Falsy(v) == v = None \/ v = ""

IsSpace(c) == c \in {" ", "\n"}

RECURSIVE LStrip(_)
LStrip(s) ==
    IF Len(s) > 0 /\ IsSpace(SubSeq(s, 1, 1))
    THEN LStrip(SubSeq(s, 2, Len(s)))
    ELSE s

RECURSIVE RStrip(_)
RStrip(s) ==
    IF Len(s) > 0 /\ IsSpace(SubSeq(s, Len(s), Len(s)))
    THEN RStrip(SubSeq(s, 1, Len(s) - 1))
    ELSE s

\* str.strip()
Strip(s) == RStrip(LStrip(s))

\* str.startswith(p)
StartsWith(s, p) == Len(s) >= Len(p) /\ SubSeq(s, 1, Len(p)) = p

\* s[:n]
Prefix(s, n) == IF Len(s) > n THEN SubSeq(s, 1, n) ELSE s

\* s[:n] + "..." if len(s) > n else s
Preview(s, n) == IF Len(s) > n THEN SubSeq(s, 1, n) \o "..." ELSE s

\* dict.get(key): None when the stored record has no such key.
DocGet(d, key) == IF key \in DOMAIN d THEN d[key] ELSE None

\* ----------------------------------------------------------------- inputs
Rep10 == "0123456789"
Text24 == Rep10 \o Rep10 \o "0123"
Text25 == Rep10 \o Rep10 \o "01234"
Text49 == Text24 \o Text25

\* What PyPDF2 makes of the uploaded bytes: it raises, or yields the pages'
\* texts.  "corrupt" bytes are no PDF; "scanned" has one page without a text
\* layer; "short" has 49 visible characters; "digital" has two pages whose
\* texts join to exactly 50 characters.
PdfBodies ==
    { [ok |-> FALSE, pages |-> << >>],
      [ok |-> TRUE, pages |-> << "" >>],
      [ok |-> TRUE, pages |-> << " " \o Text49 >>],
      [ok |-> TRUE, pages |-> << Text25, Text24 >>] }

ContentTypes == {"application/pdf", "image/png", "text/plain", None}

FileNameOf(ct) ==
    CASE ct = "application/pdf" -> "doc.pdf"
      [] ct = "image/png" -> "scan.png"
      [] OTHER -> "notes.txt"

Corrupt == [ok |-> FALSE, pages |-> << >>]
Digital == [ok |-> TRUE, pages |-> << Text25, Text24 >>]

File(ct, sz, b) == [filename |-> FileNameOf(ct), content_type |-> ct, size |-> sz, body |-> b]

\* The multipart files of POST /upload that are tried: a small PDF of every
\* kind of body, a text PDF of exactly the largest size allowed and one a
\* byte larger, and for every other declared type a small and an oversized
\* file, with bytes that are a PDF and bytes that are none.
Files ==
    { File("application/pdf", 1024, b) : b \in PdfBodies }
      \cup { File("application/pdf", sz, Digital) : sz \in {MaxFileSize, MaxFileSize + 1} }
      \cup { File(ct, sz, Corrupt) :
               ct \in ContentTypes \ {"application/pdf"}, sz \in {1024, MaxFileSize + 1} }
      \cup { File("text/plain", 1024, Digital) }

\* What the remote model can answer to a transcription request.
ExtractReplies == {"", "<b>scan"}
\* What the remote model can answer to a summary or schema request.
GenReplies == {"", "generated"}
\* What the remote model can answer in a chat.
ChatReplies == {"reply"}
RemoteFailure == "<raise>"

SummaryTypes == {"breve", "dettagliato"}
SchemaTypes == {"brainstorming", "cascata"}
Messages == {"ciao"}
Contexts == {"ctx"}

\* str(uuid.uuid4()): the n-th identifier drawn, distinct from all before.
Uuid(n) == ToString(n)

\* Ids a client can put in a request: Uuid(0) is never drawn by an upload.
DocIds == { Uuid(n) : n \in 0 .. (MaxClock \div 2) }


\* ------------------------------------------------------------------ state
VARIABLES
    docs,           \* db.documents: id -> stored record
    chat_messages,  \* db.chat_messages, in insertion order
    req,            \* the requests suspended at an await (a bag of local states)
    resp,           \* the answer the last step sent to a request that is not read-only
    nextId,         \* number of uuids drawn for documents so far
    clock,          \* the value datetime.now() returned last
    tempFiles,      \* extraction temp files present on disk (by owner id)
    deleted         \* ids whose DELETE answered 200 (history)

vars == << docs, chat_messages, req, resp, nextId, clock, tempFiles, deleted >>

NoResponse == [op |-> "none", status |-> 0]

NoDocs == [i \in {} |-> NoResponse]

\* The handler reaches an await and is suspended with local state r.
Suspend(r) == req' = req (+) SetToBag({r})

\* The suspended request r is resumed, and suspended again as r2.
Resume(r, r2) == req' = (req (-) SetToBag({r})) (+) SetToBag({r2})

\* The suspended request r is resumed and returns.
Return(r) == req' = req (-) SetToBag({r})

\* A request may start, reading the clock k times, while the readings made
\* and those still to come from the requests in flight stay within MaxClock.
Admit(k) == clock + BagCardinality(req) + k <= MaxClock

\* The chat requests suspended on the remote model.
ChatsInFlight == BagCardinality(req) - BagCardinality([r \in { q \in BagToSet(req) : q.pc # "chat" } |-> req[r]])

\* ------------------------------------------------------------------ store
\* find_one({"id": id}) is not None
Found(id) == id \in DOMAIN docs

\* insert_one(record)
InsertOne(store, record) == store @@ (record.id :> record)

\* Mutant of UpdateOne: the update is an upsert.
UpdateOne_Upsert(store, id, fields) ==
    IF id \in DOMAIN store
    THEN [store EXCEPT ![id] = fields @@ @]
    ELSE store @@ (id :> (fields @@ [id |-> id]))

\* update_one({"id": id}, {"$set": fields}): no upsert, the other keys stay.
UpdateOne(store, id, fields) ==
    IF id \in DOMAIN store
    THEN [store EXCEPT ![id] = fields @@ @]
    ELSE store

\* delete_one({"id": id})
DeleteOne(store, id) == [i \in DOMAIN store \ {id} |-> store[i]]

\* Mutant of DeletedCount: the acknowledgement is taken for the count.
DeletedCount_Acknowledged(store, id) == 1

\* DeleteResult.deleted_count
DeletedCount(store, id) == IF id \in DOMAIN store THEN 1 ELSE 0

\* -------------------------------------------------------------- extraction
RECURSIVE JoinPages(_)
\* text += page.extract_text() + "\n", page after page
JoinPages(pages) ==
    IF pages = << >> THEN "" ELSE Head(pages) \o "\n" \o JoinPages(Tail(pages))

\* The local parser: a PyPDF2 exception is swallowed and gives "".
extract_text_from_pdf(body) ==
    IF body.ok THEN Strip(JoinPages(body.pages)) ELSE ""

\* Mutant of TooLarge: the limit is 1GB.
TooLarge_WrongUnit(size) == size > 1024 * 1024 * 1024

\* `len(contents) > 100 * 1024 * 1024`
TooLarge(size) == size > MaxFileSize

\* Mutant of IsImage: text files are sent to the transcription as well.
IsImage_OrText(content_type) ==
    StartsWith(content_type, "image/") \/ StartsWith(content_type, "text/")

\* `file.content_type.startswith("image/")`
IsImage(content_type) == StartsWith(content_type, "image/")

\* Mutant of EmptyExtraction: only a missing text is rejected.
EmptyExtraction_OnlyNone(text) == text = None

\* `if not extracted_text:` after the extraction
EmptyExtraction(text) == Falsy(text)

\* Mutant of NeedsTranscription: a text of exactly the threshold is sent to
\* the transcription as well.
NeedsTranscription_Inclusive(text) == Falsy(text) \/ Len(Strip(text)) <= MinTextLen

\* `not extracted_text or len(extracted_text.strip()) < 50`
NeedsTranscription(text) == Falsy(text) \/ Len(Strip(text)) < MinTextLen

\* Mutant of NewDocument: the id is a default value, drawn once when the
\* class is defined, not a default factory.
NewDocument_SharedDefault(file, n, now) ==
    [ id |-> Uuid(1),
      filename |-> file.filename,
      content_type |-> file.content_type,
      file_size |-> file.size,
      extracted_text |-> None,
      summary_text |-> None,
      summary_type |-> None,
      mindmap_schema |-> None,
      schema_type |-> None,
      created_at |-> now + 1,
      updated_at |-> now + 2 ]

\* DocumentUpload(filename=..., content_type=..., file_size=...).dict() with
\* the defaults of the model: a fresh id and two readings of the clock.
NewDocument(file, n, now) ==
    [ id |-> Uuid(n),
      filename |-> file.filename,
      content_type |-> file.content_type,
      file_size |-> file.size,
      extracted_text |-> None,
      summary_text |-> None,
      summary_type |-> None,
      mindmap_schema |-> None,
      schema_type |-> None,
      created_at |-> now + 1,
      updated_at |-> now + 2 ]

\* The 200 answer of POST /upload; calls are the extraction calls made.
UploadOk(document, calls) ==
    [ op |-> "upload", status |-> 200, id |-> document.id,
      filename |-> document.filename,
      content_type |-> document.content_type, file_size |-> document.file_size,
      extracted_text |-> Preview(document.extracted_text, PreviewLen),
      text_length |-> Len(document.extracted_text),
      calls |-> calls ]

\* An error answer of POST /upload.
UploadError(file, status, calls) ==
    [ op |-> "upload", status |-> status, id |-> None,
      filename |-> file.filename,
      content_type |-> file.content_type, file_size |-> file.size,
      calls |-> calls ]

\* POST /upload up to its first suspension: the size check, the type
\* dispatch, the local parser, and for a text PDF the insert and the answer.
\* The id and the timestamps of a DocumentUpload that is dropped with a 400
\* are seen by nobody and leave no trace in the state.
upload_document(file) ==
    /\ file \in Files
    /\ UNCHANGED << chat_messages, deleted >>
    /\ IF TooLarge(file.size)
       THEN /\ resp' = UploadError(file, 413, {})
            /\ UNCHANGED << docs, req, nextId, clock, tempFiles >>
       ELSE IF file.content_type = None
       THEN \* DocumentUpload rejects content_type=None: a ValidationError,
            \* mapped to 500 by the catch-all handler.
            /\ resp' = UploadError(file, 500, {})
            /\ UNCHANGED << docs, req, nextId, clock, tempFiles >>
       ELSE IF file.content_type = "application/pdf"
       THEN LET document == NewDocument(file, nextId + 1, clock)
                text == extract_text_from_pdf(file.body)
            IN  /\ Admit(2)
                /\ nextId' = nextId + 1
                /\ clock' = clock + 2
                /\ IF NeedsTranscription(text)
                   THEN /\ Suspend([pc |-> "transcribe", op |-> "upload",
                                    document |-> document, calls |-> {"local", "remote"}])
                        /\ tempFiles' = tempFiles \cup {document.id}
                        /\ resp' = NoResponse
                        /\ UNCHANGED docs
                   ELSE /\ docs' = InsertOne(docs, [document EXCEPT !.extracted_text = text])
                        /\ resp' = UploadOk([document EXCEPT !.extracted_text = text], {"local"})
                        /\ UNCHANGED << req, tempFiles >>
       ELSE IF IsImage(file.content_type)
       THEN LET document == NewDocument(file, nextId + 1, clock)
            IN  /\ Admit(2)
                /\ nextId' = nextId + 1
                /\ clock' = clock + 2
                /\ Suspend([pc |-> "transcribe", op |-> "upload",
                            document |-> document, calls |-> {"remote"}])
                /\ tempFiles' = tempFiles \cup {document.id}
                /\ resp' = NoResponse
                /\ UNCHANGED docs
       ELSE /\ resp' = UploadError(file, 400, {})
            /\ UNCHANGED << docs, req, nextId, clock, tempFiles >>

\* The remote transcription answers: unlink the temp file, reject an empty
\* text, else insert and answer.  When it raises, the 500 leaves the handler
\* before os.unlink.
upload_transcribed(r, reply) ==
    /\ r \in BagToSet(req)
    /\ r.pc = "transcribe"
    /\ reply \in ExtractReplies \cup {RemoteFailure}
    /\ Return(r)
    /\ UNCHANGED << chat_messages, nextId, clock, deleted >>
    /\ LET document == [r.document EXCEPT !.extracted_text = reply]
           file == [filename |-> document.filename,
                    content_type |-> document.content_type, size |-> document.file_size]
       IN  IF reply = RemoteFailure
           THEN /\ resp' = UploadError(file, 500, r.calls)
                /\ UNCHANGED << docs, tempFiles >>
           ELSE /\ tempFiles' = tempFiles \ {document.id}
                /\ IF EmptyExtraction(reply)
                   THEN /\ resp' = UploadError(file, 400, r.calls)
                        /\ UNCHANGED docs
                   ELSE /\ docs' = InsertOne(docs, document)
                        /\ resp' = UploadOk(document, r.calls)

\* -------------------------------------------------------------- generation
\* Mutant of SummarySet: the text is written to the wrong key.
SummarySet_WrongKey(text, tag, now) ==
    [extracted_text |-> text, summary_type |-> tag, updated_at |-> now]

\* Mutant of SummarySet: the tag is left to a second write that is never
\* made.
SummarySet_NoTag(text, tag, now) == [summary_text |-> text, updated_at |-> now]

\* The $set of generate_summary.
SummarySet(text, tag, now) ==
    [summary_text |-> text, summary_type |-> tag, updated_at |-> now]

\* Mutant of SchemaSet: the record is rewritten from a fresh model object,
\* which resets the summary.
SchemaSet_Rewrite(text, tag, now) ==
    [mindmap_schema |-> text, schema_type |-> tag, updated_at |-> now,
     summary_text |-> None, summary_type |-> None]

\* The $set of generate_schema.
SchemaSet(text, tag, now) ==
    [mindmap_schema |-> text, schema_type |-> tag, updated_at |-> now]

\* Mutant of NoText: only a missing text is rejected.
NoText_OnlyNone(document) == DocGet(document, "extracted_text") = None

\* `not document.get('extracted_text')`
NoText(document) == Falsy(DocGet(document, "extracted_text"))

\* POST /generate-summary and POST /generate-schema up to the remote call:
\* find_one, 404 when there is no record, 400 when it has no text.
GenerateRead(op, id, tag) ==
    /\ UNCHANGED << docs, chat_messages, nextId, clock, tempFiles, deleted >>
    /\ IF ~Found(id)
       THEN /\ resp' = [op |-> op, status |-> 404, document_id |-> id]
            /\ UNCHANGED req
       ELSE IF NoText(docs[id])
       THEN /\ resp' = [op |-> op, status |-> 400, document_id |-> id]
            /\ UNCHANGED req
       ELSE /\ Admit(1)
            /\ Suspend([pc |-> "generate", op |-> op, document_id |-> id, tag |-> tag])
            /\ resp' = NoResponse

generate_summary(id, tag) ==
    /\ id \in DocIds
    /\ tag \in SummaryTypes
    /\ GenerateRead("summary", id, tag)

generate_schema(id, tag) ==
    /\ id \in DocIds
    /\ tag \in SchemaTypes
    /\ GenerateRead("schema", id, tag)

\* Mutant of GenerateError: the failure is logged and answered as a success.
GenerateError_Swallowed(r) ==
    [op |-> r.op, status |-> 200, document_id |-> r.document_id,
     text |-> "", tag |-> r.tag]

\* The HTTPException(500) the generation helper raises when the remote call
\* failed; the handler re-raises it.
GenerateError(r) == [op |-> r.op, status |-> 500, document_id |-> r.document_id]

\* The remote model answers a generation request.  On an answer the handler
\* reads the clock and hands the update to the store driver; when the call
\* raised, the handler answers 500.
generate_replied(r, reply) ==
    /\ r \in BagToSet(req)
    /\ r.pc = "generate"
    /\ reply \in GenReplies \cup {RemoteFailure}
    /\ UNCHANGED << docs, chat_messages, nextId, tempFiles, deleted >>
    /\ IF reply = RemoteFailure
       THEN /\ resp' = GenerateError(r)
            /\ Return(r)
            /\ UNCHANGED clock
       ELSE /\ clock < MaxClock
            /\ clock' = clock + 1
            /\ Resume(r, [pc |-> "update", op |-> r.op, document_id |-> r.document_id,
                          tag |-> r.tag, text |-> reply, now |-> clock + 1])
            /\ resp' = NoResponse

\* The store applies the update_one of a generation request; the handler
\* does not look at its result and answers 200 with the generated text.
generate_update(r) ==
    /\ r \in BagToSet(req)
    /\ r.pc = "update"
    /\ docs' = UpdateOne(docs, r.document_id,
                         IF r.op = "summary"
                         THEN SummarySet(r.text, r.tag, r.now)
                         ELSE SchemaSet(r.text, r.tag, r.now))
    /\ resp' = [op |-> r.op, status |-> 200, document_id |-> r.document_id,
                text |-> r.text, tag |-> r.tag]
    /\ Return(r)
    /\ UNCHANGED << chat_messages, nextId, clock, tempFiles, deleted >>

\* --------------------------------------------------------------------- chat
\* The system instruction of a chat: the document's first 2000 characters
\* and the caller's context, each when present.
SystemMessage(id, context) ==
    LET withDoc == IF ~Falsy(id) /\ Found(id) /\ ~NoText(docs[id])
                   THEN "doc:" \o Prefix(docs[id].extracted_text, ChatContextLen) \o "..."
                   ELSE ""
        withCtx == IF ~Falsy(context) THEN "ctx:" \o context ELSE ""
    IN  withDoc \o withCtx

\* POST /chat up to the remote call.
chat_with_document(id, message, context) ==
    /\ id \in DocIds \cup {None}
    /\ message \in Messages
    /\ context \in Contexts
    /\ Admit(1)
    /\ Len(chat_messages) + ChatsInFlight < MaxChats
    /\ Suspend([pc |-> "chat", op |-> "chat", document_id |-> id, message |-> message,
                system_message |-> SystemMessage(id, context)])
    /\ resp' = NoResponse
    /\ UNCHANGED << docs, chat_messages, nextId, clock, tempFiles, deleted >>

\* Mutant of ChatTurn: the turn is stored without its document.
ChatTurn_NoDocument(r, reply, n, now) ==
    [ id |-> "c" \o ToString(n), document_id |-> None,
      message |-> r.message, response |-> reply, created_at |-> now ]

\* ChatMessage(document_id=..., message=..., response=...).dict() with the
\* defaults of the model: a fresh id and one reading of the clock.
ChatTurn(r, reply, n, now) ==
    [ id |-> "c" \o ToString(n), document_id |-> r.document_id,
      message |-> r.message, response |-> reply, created_at |-> now ]

\* The remote model answers a chat: the turn is stored and returned; when
\* the call raised, the handler answers 500.
chat_replied(r, reply) ==
    /\ r \in BagToSet(req)
    /\ r.pc = "chat"
    /\ reply \in ChatReplies \cup {RemoteFailure}
    /\ Return(r)
    /\ UNCHANGED << docs, nextId, tempFiles, deleted >>
    /\ IF reply = RemoteFailure
       THEN /\ resp' = [op |-> "chat", status |-> 500]
            /\ UNCHANGED << chat_messages, clock >>
       ELSE LET turn == ChatTurn(r, reply, Len(chat_messages) + 1, clock + 1)
            IN  /\ clock < MaxClock
                /\ clock' = clock + 1
                /\ chat_messages' = Append(chat_messages, turn)
                /\ resp' = [op |-> "chat", status |-> 200, message |-> turn.message,
                            response |-> reply, chat_id |-> turn.id]

\* ------------------------------------------------------------------- export
RECURSIVE HasMarkup(_)
\* An opening angle bracket starts a tag in the layout engine's paragraph
\* markup.
HasMarkup(s) ==
    Len(s) > 0 /\ (SubSeq(s, 1, 1) = "<" \/ HasMarkup(SubSeq(s, 2, Len(s))))

\* create_pdf_export: the rendered file is served (200), or the layout
\* engine's exception is mapped to 500.
create_pdf_export(content, title) ==
    IF HasMarkup(title) \/ HasMarkup(content) THEN 500 ELSE 200

ExportKinds == {None, "summary", "schema", "full", "docx"}

\* Mutant of NoContent: only a missing field is rejected.
NoContent_OnlyNone(content) == content = None

\* `if not content:`
NoContent(content) == Falsy(content)

\* The status of GET /export-pdf/{id}?content_type=kind on the store as it
\* is; the parameter defaults to "summary" when the query does not give it.
ExportStatus(id, kind) ==
    LET content_type == IF kind = None THEN "summary" ELSE kind
    IN  IF ~Found(id)
        THEN 404
        ELSE IF content_type \notin {"summary", "schema", "full"}
        THEN 400
        ELSE LET document == docs[id]
                 content == CASE content_type = "summary" -> DocGet(document, "summary_text")
                              [] content_type = "schema" -> DocGet(document, "mindmap_schema")
                              [] OTHER -> DocGet(document, "extracted_text")
                 title == content_type \o " - " \o DocGet(document, "filename")
             IN  IF NoContent(content) THEN 400 ELSE create_pdf_export(content, title)

\* GET /export-pdf/{document_id}: one find_one and the answer.  The handler
\* changes nothing the other requests can see (the rendered file is left in
\* the temp directory for the transport), so its answer is ExportStatus at the
\* state it runs in.
export_pdf(id, kind) ==
    /\ id \in DocIds
    /\ kind \in ExportKinds
    /\ ExportStatus(id, kind) \in {200, 400, 404, 500}
    /\ UNCHANGED vars

\* ---------------------------------------------------------- read and delete
ListLimit == 1000

ListEntry(doc) ==
    [ id |-> doc.id, filename |-> doc.filename, content_type |-> doc.content_type,
      file_size |-> doc.file_size,
      has_summary |-> ~Falsy(DocGet(doc, "summary_text")),
      has_schema |-> ~Falsy(DocGet(doc, "mindmap_schema")),
      created_at |-> doc.created_at,
      text_preview |-> IF Falsy(DocGet(doc, "extracted_text"))
                       THEN None
                       ELSE Prefix(doc.extracted_text, ListPreviewLen) \o "..." ]

\* The answers GET /documents can give on the store as it is:
\* find().to_list(1000)
ListResponses ==
    { [status |-> 200, body |-> { ListEntry(docs[i]) : i \in listed }] :
        listed \in { l \in SUBSET DOMAIN docs :
                       Cardinality(l) = IF Cardinality(DOMAIN docs) > ListLimit
                                        THEN ListLimit
                                        ELSE Cardinality(DOMAIN docs) } }

\* GET /documents
get_documents ==
    /\ ListResponses # {}
    /\ UNCHANGED vars

\* Mutant of GetResponse: the text is returned as the list returns it, as a
\* preview.
GetResponse_Preview(id) ==
    IF ~Found(id)
    THEN [status |-> 404]
    ELSE LET document == docs[id]
         IN  [ status |-> 200,
               body |-> [ id |-> document.id,
                          filename |-> document.filename,
                          content_type |-> document.content_type,
                          file_size |-> document.file_size,
                          extracted_text |-> Prefix(DocGet(document, "extracted_text"),
                                                    ListPreviewLen) \o "...",
                          summary_text |-> DocGet(document, "summary_text"),
                          summary_type |-> DocGet(document, "summary_type"),
                          mindmap_schema |-> DocGet(document, "mindmap_schema"),
                          schema_type |-> DocGet(document, "schema_type"),
                          created_at |-> document.created_at,
                          updated_at |-> DocGet(document, "updated_at") ] ]

\* The answer of GET /document/{id} on the store as it is.
GetResponse(id) ==
    IF ~Found(id)
    THEN [status |-> 404]
    ELSE LET document == docs[id]
         IN  [ status |-> 200,
               body |-> [ id |-> document.id,
                          filename |-> document.filename,
                          content_type |-> document.content_type,
                          file_size |-> document.file_size,
                          extracted_text |-> DocGet(document, "extracted_text"),
                          summary_text |-> DocGet(document, "summary_text"),
                          summary_type |-> DocGet(document, "summary_type"),
                          mindmap_schema |-> DocGet(document, "mindmap_schema"),
                          schema_type |-> DocGet(document, "schema_type"),
                          created_at |-> document.created_at,
                          updated_at |-> DocGet(document, "updated_at") ] ]

\* GET /document/{id}
get_document(id) ==
    /\ id \in DocIds
    /\ GetResponse(id).status \in {200, 404}
    /\ UNCHANGED vars

\* Mutant of delete_document: the chat turns of the document are deleted
\* with it.
delete_document_Cascade(id) ==
    /\ id \in DocIds
    /\ docs' = DeleteOne(docs, id)
    /\ chat_messages' = SelectSeq(chat_messages, LAMBDA turn : turn.document_id # id)
    /\ IF DeletedCount(docs, id) = 0
       THEN /\ resp' = [op |-> "delete", status |-> 404, document_id |-> id]
            /\ UNCHANGED deleted
       ELSE /\ resp' = [op |-> "delete", status |-> 200, document_id |-> id]
            /\ deleted' = deleted \cup {id}
    /\ UNCHANGED << req, nextId, clock, tempFiles >>

\* DELETE /document/{id}: one delete_one, 404 when it deleted nothing.
delete_document(id) ==
    /\ id \in DocIds
    /\ docs' = DeleteOne(docs, id)
    /\ IF DeletedCount(docs, id) = 0
       THEN /\ resp' = [op |-> "delete", status |-> 404, document_id |-> id]
            /\ UNCHANGED deleted
       ELSE /\ resp' = [op |-> "delete", status |-> 200, document_id |-> id]
            /\ deleted' = deleted \cup {id}
    /\ UNCHANGED << chat_messages, req, nextId, clock, tempFiles >>

\* GET /
root == UNCHANGED vars

\* ------------------------------------------------------------ specification
\* A server started on an empty database.
Init ==
    /\ docs = NoDocs
    /\ chat_messages = << >>
    /\ req = EmptyBag
    /\ resp = NoResponse
    /\ nextId = 0
    /\ clock = 0
    /\ tempFiles = {}
    /\ deleted = {}

Next ==
    \/ \E file \in Files : upload_document(file)
    \/ \E r \in BagToSet(req), reply \in ExtractReplies \cup {RemoteFailure} :
          upload_transcribed(r, reply)
    \/ \E id \in DocIds, tag \in SummaryTypes : generate_summary(id, tag)
    \/ \E id \in DocIds, tag \in SchemaTypes : generate_schema(id, tag)
    \/ \E r \in BagToSet(req), reply \in GenReplies \cup {RemoteFailure} :
          generate_replied(r, reply)
    \/ \E r \in BagToSet(req) : generate_update(r)
    \/ \E id \in DocIds \cup {None}, message \in Messages, context \in Contexts :
          chat_with_document(id, message, context)
    \/ \E r \in BagToSet(req), reply \in ChatReplies \cup {RemoteFailure} :
          chat_replied(r, reply)
    \/ \E id \in DocIds, kind \in ExportKinds : export_pdf(id, kind)
    \/ get_documents
    \/ \E id \in DocIds : get_document(id)
    \/ \E id \in DocIds : delete_document(id)
    \/ root

Spec == Init /\ [][Next]_vars

\* A record that was not written by this server's upload: it has no text
\* (the key is missing, or holds None or ""), as DocumentUpload allows.
LegacyDocuments ==
    LET base == [ id |-> Uuid(1), filename |-> "old.pdf",
                  content_type |-> "application/pdf", file_size |-> 1024,
                  summary_text |-> None, summary_type |-> None,
                  mindmap_schema |-> None, schema_type |-> None,
                  created_at |-> 0, updated_at |-> 0 ]
    IN  { base } \cup { base @@ [extracted_text |-> t] : t \in {None, ""} }

\* A server started on a database that already holds such a record: its id
\* is taken and its timestamps are in the past.
InitSeeded ==
    /\ docs \in { (d.id :> d) : d \in LegacyDocuments }
    /\ chat_messages = << >>
    /\ req = EmptyBag
    /\ resp = NoResponse
    /\ nextId = 1
    /\ clock = 1
    /\ tempFiles = {}
    /\ deleted = {}

SpecSeeded == InitSeeded /\ [][Next]_vars

\* =================================================================== claims
Generations == {"summary", "schema"}

\* A declared content type that upload does not accept.
Unsupported(content_type) ==
    /\ content_type # None
    /\ content_type # "application/pdf"
    /\ ~StartsWith(content_type, "image/")

\* The step answered a POST /upload.
UploadAnswered == resp'.op = "upload"

Generating(bag, id) ==
    { r \in BagToSet(bag) : r.op \in Generations /\ r.document_id = id }

\* C3: for a stored document whose extracted_text is absent or empty,
\* generate-summary and generate-schema answer 400, never call the remote
\* generator and leave the record unchanged.
C3_NoTextRejected ==
    [][ \A id \in DOMAIN docs :
          (DocGet(docs[id], "extracted_text") \in {None, ""})
            => /\ Generating(req', id) = {}
               /\ (resp'.op \in Generations /\ resp'.document_id = id)
                    => resp'.status = 400 /\ docs' = docs /\ req' = req ]_vars

\* C3 witness: a generate-schema on a stored document without text has been
\* answered 400.
C3_Witness ==
    /\ resp.op = "schema"
    /\ resp.status = 400
    /\ Found(resp.document_id)
    /\ DocGet(docs[resp.document_id], "extracted_text") \in {None, ""}

\* C4 as stated: export of the summary of a document without summary
\* answers 400, and after a generate-summary that answered 200, whatever the
\* text, the same export of that still-stored document answers 200.
C4_AsStated ==
    /\ \A id \in DOMAIN docs :
          DocGet(docs[id], "summary_text") = None => ExportStatus(id, "summary") = 400
    /\ (resp.op = "summary" /\ resp.status = 200 /\ Found(resp.document_id))
          => ExportStatus(resp.document_id, "summary") = 200

\* C5: a delete answers 200 exactly when the id is in the store when it is
\* applied and 404 otherwise; an id is deleted with 200 at most once; and
\* once it was, every get, export and generation request that starts for it
\* answers 404.
C5_DeleteOnce ==
    /\ [](\A id \in deleted :
            /\ ~Found(id)
            /\ GetResponse(id).status = 404
            /\ \A kind \in ExportKinds : ExportStatus(id, kind) = 404)
    /\ [][ /\ resp'.op = "delete"
              => /\ resp'.status = IF Found(resp'.document_id) THEN 200 ELSE 404
                 /\ resp'.status = 200 => resp'.document_id \notin deleted
                 /\ resp'.document_id \notin DOMAIN docs'
           /\ \A id \in deleted :
                /\ \A r \in Generating(req', id) :
                      r.pc = "generate" => CopiesIn(r, req') <= CopiesIn(r, req)
                /\ (resp'.op \in Generations /\ resp'.document_id = id /\ req' = req)
                     => resp'.status = 404 ]_vars

\* C5 witness: a second delete of a deleted id has been answered 404.
C5_Witness ==
    /\ resp.op = "delete"
    /\ resp.status = 404
    /\ resp.document_id \in deleted

\* C6: the store write of a generate-schema sets the schema text and tag of
\* its request and leaves summary_text and summary_type as they were, and
\* the write of a generate-summary sets the summary text and tag and leaves
\* mindmap_schema and schema_type as they were, in every interleaving.
C6_IndependentFields ==
    [][ \A id \in DOMAIN docs :
          (resp'.op \in Generations /\ resp'.status = 200 /\ resp'.document_id = id)
            => /\ id \in DOMAIN docs'
               /\ IF resp'.op = "summary"
                  THEN /\ docs'[id].summary_text = resp'.text
                       /\ docs'[id].summary_type = resp'.tag
                       /\ docs'[id].mindmap_schema = docs[id].mindmap_schema
                       /\ docs'[id].schema_type = docs[id].schema_type
                  ELSE /\ docs'[id].mindmap_schema = resp'.text
                       /\ docs'[id].schema_type = resp'.tag
                       /\ docs'[id].summary_text = docs[id].summary_text
                       /\ docs'[id].summary_type = docs[id].summary_type ]_vars

\* C6 witness: a record holds a summary and a schema, and the write applied
\* last carries a timestamp older than the clock: another request read the
\* clock between this request's remote answer and its write.
C6_Witness ==
    /\ resp.op \in Generations
    /\ resp.status = 200
    /\ Found(resp.document_id)
    /\ docs[resp.document_id].summary_text = "generated"
    /\ docs[resp.document_id].mindmap_schema = "generated"
    /\ docs[resp.document_id].updated_at < clock

\* C7 as stated: a 200 from generate-summary or generate-schema implies
\* that the returned text is in the stored record of that id.
C7_AsStated ==
    (resp.op \in Generations /\ resp.status = 200)
      => /\ Found(resp.document_id)
         /\ resp.text = IF resp.op = "summary"
                        THEN docs[resp.document_id].summary_text
                        ELSE docs[resp.document_id].mindmap_schema

\* C8: every stored record has a non-empty extracted_text, so the export of
\* the full text of a stored document never answers 400.
C8_TextAlwaysPresent ==
    \A id \in DOMAIN docs :
        /\ "extracted_text" \in DOMAIN docs[id]
        /\ docs[id].extracted_text \notin {None, ""}
        /\ ExportStatus(id, "full") # 400

\* C8 witness: a record whose text came from the remote transcription is
\* stored.
C8_Witness ==
    \E id \in DOMAIN docs :
        /\ docs[id].content_type = "image/png"
        /\ docs[id].extracted_text # ""
        /\ ExportStatus(id, "full") # 400

\* C9: no step changes the extracted_text of a record that stays stored.
C9_TextNeverRewritten ==
    [][ \A id \in DOMAIN docs \cap DOMAIN docs' :
          DocGet(docs'[id], "extracted_text") = DocGet(docs[id], "extracted_text") ]_vars

\* C9 witness: a record has been written by a summary and by a schema
\* request and still holds its text.
C9_Witness ==
    \E id \in DOMAIN docs :
        /\ docs[id].summary_text # None
        /\ docs[id].mindmap_schema # None
        /\ docs[id].extracted_text \notin {None, ""}

\* C10 as stated: every store write of a generation request leaves
\* updated_at strictly greater than it was just before the write.
C10_AsStated ==
    [][ \A id \in DOMAIN docs :
          (resp'.op \in Generations /\ resp'.status = 200 /\ resp'.document_id = id)
            => docs'[id].updated_at > docs[id].updated_at ]_vars

\* C11: when the remote call of a generate-summary or generate-schema fails,
\* the request is answered 500 and is gone (no second call is made in its
\* place), and the step leaves every stored record, with its summary_text,
\* summary_type, mindmap_schema, schema_type and updated_at, as it was.
C11_FailureWritesNothing ==
    [][ /\ \A r \in BagToSet(req) :
             ( /\ r.pc = "generate"
               /\ CopiesIn(r, req') < CopiesIn(r, req)
               /\ BagCardinality(req') < BagCardinality(req) )
               => /\ resp' = [op |-> r.op, status |-> 500, document_id |-> r.document_id]
                  /\ BagCardinality(req') = BagCardinality(req) - 1
                  /\ docs' = docs
        /\ (resp'.op \in Generations /\ resp'.status = 500)
               => /\ docs' = docs
                  /\ BagCardinality(req') = BagCardinality(req) - 1 ]_vars

\* C11 witness: a generate-schema has been answered 500 on a record that
\* holds the summary an earlier request wrote, and no schema.
C11_Witness ==
    /\ resp.op = "schema"
    /\ resp.status = 500
    /\ Found(resp.document_id)
    /\ docs[resp.document_id].summary_text = "generated"
    /\ docs[resp.document_id].mindmap_schema = None

\* C12 as stated: every extraction temp file on disk belongs to an upload
\* request that is still waiting for the remote transcription; when the
\* request has completed, with an answer or with an error, its file is gone.
C12_AsStated ==
    \A f \in tempFiles :
        \E r \in BagToSet(req) : r.pc = "transcribe" /\ r.document.id = f

\* The stored field that GET /export-pdf renders for a given content_type.
SelectedField(kind) ==
    CASE kind = "summary" -> "summary_text"
      [] kind = "schema" -> "mindmap_schema"
      [] kind = "full" -> "extracted_text"

\* C13 as stated: on a stored document the export answers 400 when the
\* content_type parameter is missing or is not summary, schema or full, and
\* 400 when the selected field is absent or empty; on an unknown id it
\* answers 404 whatever the content_type.
C13_AsStated ==
    \A id \in DocIds :
        IF ~Found(id)
        THEN \A kind \in ExportKinds : ExportStatus(id, kind) = 404
        ELSE /\ \A kind \in ExportKinds \ {"summary", "schema", "full"} :
                    ExportStatus(id, kind) = 400
             /\ \A kind \in {"summary", "schema", "full"} :
                    DocGet(docs[id], SelectedField(kind)) \in {None, ""}
                      => ExportStatus(id, kind) = 400

\* C13, amended: on a stored document the export answers 400 when the
\* content_type parameter is given and is not summary, schema or full; a
\* missing parameter selects the summary; the export answers 400 when the
\* selected field is absent or empty; on an unknown id it answers 404
\* whatever the content_type.
C13_ExportErrors ==
    \A id \in DocIds :
        IF id \notin DOMAIN docs
        THEN \A kind \in ExportKinds : ExportStatus(id, kind) = 404
        ELSE /\ \A kind \in ExportKinds \ {None, "summary", "schema", "full"} :
                    ExportStatus(id, kind) = 400
             /\ \A kind \in {"summary", "schema", "full"} :
                    DocGet(docs[id], SelectedField(kind)) \in {None, ""}
                      => ExportStatus(id, kind) = 400
             /\ IF DocGet(docs[id], "summary_text") \in {None, ""}
                THEN ExportStatus(id, None) = 400
                ELSE ExportStatus(id, None) \in {200, 500}

\* C13 witness: a stored document holds an empty summary and no schema, so
\* that its summary export, its schema export and an export of an unknown
\* content_type answer 400, while another id is unknown.
C13_Witness ==
    \E id \in DOMAIN docs :
        /\ docs[id].summary_text = ""
        /\ docs[id].mindmap_schema = None
        /\ ExportStatus(id, "summary") = 400
        /\ ExportStatus(id, "schema") = 400
        /\ ExportStatus(id, "docx") = 400
        /\ \E other \in DocIds : ExportStatus(other, "docx") = 404

\* The requests that the step suspended.
Started == { r \in BagToSet(req') : CopiesIn(r, req') > CopiesIn(r, req) }

\* The step of POST /upload with this PDF takes the extraction path the local
\* parser's outcome calls for: the remote transcription is called exactly when
\* the parser raised, returned no text or returned fewer than 50 characters
\* after stripping, and otherwise the parser's text is stored.
PdfExtractionPath(file) ==
    LET local == extract_text_from_pdf(file.body)
        fallback == ~file.body.ok \/ local = "" \/ Len(Strip(local)) < 50
    IN  IF fallback
        THEN /\ docs' = docs
             /\ Started # {}
             /\ \A r \in Started : r.pc = "transcribe" /\ r.calls = {"local", "remote"}
        ELSE /\ Started = {}
             /\ resp'.status = 200
             /\ resp'.calls = {"local"}
             /\ resp'.id \in DOMAIN docs'
             /\ docs'[resp'.id].extracted_text = local

\* The step of POST /upload with an image calls the remote transcription and
\* does not run the local parser.
ImageExtractionPath ==
    /\ docs' = docs
    /\ Started # {}
    /\ \A r \in Started : r.pc = "transcribe" /\ r.calls = {"remote"}

\* The steps of upload_document that change the state: it draws an id for the
\* record it builds, or it answers at once.
UploadStep == nextId' # nextId \/ (resp'.op = "upload" /\ resp' # resp /\ req' = req)

\* C14 as stated: a PDF upload calls the remote transcription if and only if
\* the local parser raised, returned empty text or fewer than 50 characters
\* after stripping, and otherwise stores the parser's text; an image upload,
\* whatever its size, always calls the remote transcription and never runs
\* the local parser.
C14_AsStated ==
    [][ UploadStep => \A file \in Files :
          upload_document(file)
            => /\ (file.content_type = "application/pdf" /\ file.size <= 100 * 1024 * 1024)
                    => PdfExtractionPath(file)
               /\ (file.content_type # None /\ StartsWith(file.content_type, "image/"))
                    => ImageExtractionPath ]_vars

\* C14, amended: for uploads of at most 100MB, a PDF upload calls the remote
\* transcription if and only if the local parser raised, returned empty text
\* or fewer than 50 characters after stripping, and otherwise stores the
\* parser's text; an image upload always calls the remote transcription and
\* never runs the local parser.  A larger upload runs neither.
C14_ExtractionPath ==
    [][ UploadStep => \A file \in Files :
          upload_document(file)
            => IF file.size <= 100 * 1024 * 1024
               THEN /\ file.content_type = "application/pdf" => PdfExtractionPath(file)
                    /\ (file.content_type # None /\ StartsWith(file.content_type, "image/"))
                         => ImageExtractionPath
               ELSE Started = {} /\ resp'.calls = {} /\ docs' = docs ]_vars

\* C14 witness: a PDF whose local text has exactly 50 characters has been
\* stored from the local parser alone.
C14_Witness ==
    /\ resp.op = "upload"
    /\ resp.status = 200
    /\ resp.calls = {"local"}
    /\ resp.text_length = 50
    /\ docs[resp.id].extracted_text = Text25 \o "\n" \o Text24

\* C15: a chat answered 200 appends exactly one turn, whose id is the
\* chat_id of the answer and is new, and which holds the document_id and the
\* message of the request and the model's response; a chat whose remote call
\* failed is answered 500 and appends nothing; no chat is answered 404, and
\* nothing else appends a turn.
C15_ChatStoresOneTurn ==
    [][ /\ resp'.op = "chat"
             => \E r \in BagToSet(req) :
                  /\ r.pc = "chat"
                  /\ req' = req (-) SetToBag({r})
                  /\ IF resp'.status = 200
                     THEN LET n == Len(chat_messages)
                              turn == chat_messages'[n + 1]
                          IN  /\ Len(chat_messages') = n + 1
                              /\ SubSeq(chat_messages', 1, n) = chat_messages
                              /\ turn.id = resp'.chat_id
                              /\ \A i \in 1 .. n : chat_messages[i].id # turn.id
                              /\ turn.document_id = r.document_id
                              /\ turn.message = r.message
                              /\ resp'.message = r.message
                              /\ turn.response = resp'.response
                     ELSE /\ resp'.status = 500
                          /\ chat_messages' = chat_messages
        /\ chat_messages' # chat_messages
             => resp'.op = "chat" /\ resp'.status = 200 ]_vars

\* C15 witness: a chat about a document_id that matches no stored document
\* has been answered 200 and its turn is stored.
C15_Witness ==
    /\ resp.op = "chat"
    /\ resp.status = 200
    /\ Len(chat_messages) > 0
    /\ chat_messages[Len(chat_messages)].id = resp.chat_id
    /\ chat_messages[Len(chat_messages)].document_id # None
    /\ ~Found(chat_messages[Len(chat_messages)].document_id)

C17_GetAfterUpload ==
    [][ /\ \A id \in DocIds :
             (resp'.op = "upload" /\ resp'.status = 200 /\ resp'.id = id)
               => LET got == GetResponse(id)'
                  IN  /\ got.status = 200
                      /\ got.body.id = id
                      /\ got.body.filename = resp'.filename
                      /\ got.body.content_type = resp'.content_type
                      /\ got.body.file_size = resp'.file_size
                      /\ Len(got.body.extracted_text) = resp'.text_length
        /\ \A id \in IF docs' = docs THEN {} ELSE DOMAIN docs :
             ~(resp'.op = "delete" /\ resp'.status = 200 /\ resp'.document_id = id)
               => LET was == GetResponse(id)
                      got == GetResponse(id)'
                  IN  /\ got.status = 200
                      /\ got.body.id = was.body.id
                      /\ got.body.filename = was.body.filename
                      /\ got.body.content_type = was.body.content_type
                      /\ got.body.file_size = was.body.file_size
                      /\ got.body.extracted_text = was.body.extracted_text ]_vars

\* C17 witness: an uploaded document has since been summarised and chatted
\* about, and GET /document still answers with its 50 characters of text.
C17_Witness ==
    \E id \in DOMAIN docs :
        /\ docs[id].summary_text = "generated"
        /\ \E i \in 1 .. Len(chat_messages) : chat_messages[i].document_id = id
        /\ GetResponse(id).status = 200
        /\ GetResponse(id).body.filename = "doc.pdf"
        /\ Len(GetResponse(id).body.extracted_text) = 50

\* The generation request whose store write this step applied to record id.
Applied(r, id, op) ==
    /\ r.pc = "update"
    /\ r.op = op
    /\ r.document_id = id
    /\ req' = req (-) SetToBag({r})

\* C18: the summary text and tag of a record change only in the step that
\* applies the store write of one generate-summary request, and after that
\* step both are the text and the tag of that request, whatever was there
\* before: the write applied last wins, and the text of one request never
\* stands with the tag of another.  Likewise for the schema text and tag.
C18_PairFromOneRequest ==
    [][ /\ \A id \in IF docs' = docs THEN {} ELSE DOMAIN docs \cap DOMAIN docs' :
             /\ << docs'[id].summary_text, docs'[id].summary_type >>
                  # << docs[id].summary_text, docs[id].summary_type >>
                  => \E r \in BagToSet(req) :
                       /\ Applied(r, id, "summary")
                       /\ docs'[id].summary_text = r.text
                       /\ docs'[id].summary_type = r.tag
             /\ << docs'[id].mindmap_schema, docs'[id].schema_type >>
                  # << docs[id].mindmap_schema, docs[id].schema_type >>
                  => \E r \in BagToSet(req) :
                       /\ Applied(r, id, "schema")
                       /\ docs'[id].mindmap_schema = r.text
                       /\ docs'[id].schema_type = r.tag
        /\ \A r \in BagToSet(req) :
             \A id \in DOMAIN docs :
                /\ Applied(r, id, "summary")
                     => /\ id \in DOMAIN docs'
                        /\ docs'[id].summary_text = r.text
                        /\ docs'[id].summary_type = r.tag
                /\ Applied(r, id, "schema")
                     => /\ id \in DOMAIN docs'
                        /\ docs'[id].mindmap_schema = r.text
                        /\ docs'[id].schema_type = r.tag ]_vars

\* C18 witness: two generate-summary requests for one document were in
\* flight together and both have written: the record holds the text and the
\* tag of the request answered last, whose timestamp is older than the other
\* request's reading of the clock.
C18_Witness ==
    /\ resp.op = "summary"
    /\ resp.status = 200
    /\ Found(resp.document_id)
    /\ docs[resp.document_id].summary_text = resp.text
    /\ docs[resp.document_id].summary_type = resp.tag
    /\ docs[resp.document_id].mindmap_schema = None
    /\ docs[resp.document_id].updated_at < clock
    /\ chat_messages = << >>
    /\ req = EmptyBag

\* C19: an id enters the store only with the 200 of the upload that drew it,
\* and never an id that a DELETE removed; the store write of a generation
\* request whose document was deleted after the request read it leaves the
\* store as it was.
C19_NoResurrection ==
    [][ /\ \A id \in DOMAIN docs' \ DOMAIN docs :
             /\ id \notin deleted
             /\ resp'.op = "upload" /\ resp'.status = 200 /\ resp'.id = id
        /\ \A r \in BagToSet(req) :
             ( /\ r.pc = "update"
               /\ r.document_id \notin DOMAIN docs
               /\ req' = req (-) SetToBag({r}) )
               => docs' = docs ]_vars

\* C19 witness: a generation request has applied its write, and been answered
\* 200, after its document was deleted, and the id is not in the store.
C19_Witness ==
    /\ resp.op \in Generations
    /\ resp.status = 200
    /\ resp.document_id \in deleted
    /\ ~Found(resp.document_id)
    /\ resp.text = "generated"

\* C20: an upload answered 200 adds exactly one record, under the id it
\* answers, which no record stored now or deleted before has, and leaves the
\* other records as they were; an upload answered 413, 400 or 500 leaves the
\* collection as it was; nothing but an upload answered 200 adds a record;
\* a record leaves the collection only by a DELETE answered 200; and every
\* record is stored under its own id, which no step changes.
C20_GrowsByUploadOnly ==
    [][ /\ (resp'.op = "upload" /\ resp'.status = 200)
             => /\ resp'.id \notin DOMAIN docs
                /\ resp'.id \notin deleted
                /\ DOMAIN docs' = DOMAIN docs \cup {resp'.id}
                /\ \A id \in DOMAIN docs : docs'[id] = docs[id]
        /\ (resp'.op = "upload" /\ resp'.status # 200)
             => /\ resp'.status \in {413, 400, 500}
                /\ docs' = docs
        /\ DOMAIN docs' \ DOMAIN docs # {}
             => resp'.op = "upload" /\ resp'.status = 200
        /\ DOMAIN docs \ DOMAIN docs' \subseteq deleted'
        /\ \A id \in DOMAIN docs' : docs'[id].id = id ]_vars

\* C20 witness: a second upload has been answered 200 and the store holds two
\* records, each under its own id.
C20_Witness ==
    /\ resp.op = "upload"
    /\ resp.status = 200
    /\ Cardinality(DOMAIN docs) = 2
    /\ \A id \in DOMAIN docs : docs[id].id = id

====
